---- MODULE Spec2Model ----
(***************************************************************************)
(* Model of src/src/peft/tuners/lora.py: the LoRA adapter layers Linear    *)
(* and MergedLinear (construction, train, eval, forward, zero_pad), the    *)
(* LoraModel facade's train/eval propagation, and the substitution pass    *)
(* LoraModel._find_and_replace.                                            *)
(*                                                                         *)
(* Tensors are integer matrices (sequences of rows).  scaling =            *)
(* lora_alpha / r is kept exact by drawing lora_alpha among the multiples  *)
(* of r.  Dropout with p > 0 is modelled for p = 1/2: a kept element is    *)
(* multiplied by 1/(1-p) = 2, a dropped one is 0, and the mask is an input *)
(* of forward.                                                             *)
(***************************************************************************)
EXTENDS Integers, Sequences, FiniteSets

\* ------------------------------------------------------------ bounds
MaxIn == 2
MaxOut == 4
MaxMask == 3
MaxR == 2
MaxScaling == 2
MaxVal == 1

VARIABLES layer, pc, pre, last, eff0
VARIABLES net, training, flast, fpre
VARIABLES graph, config, kwargs, new_module, adapters, slots, pos, raised

layerVars == <<layer, pc, pre, last, eff0>>
facadeVars == <<net, training, flast, fpre>>
substVars == <<graph, config, kwargs, new_module, adapters, slots, pos, raised>>
vars == <<layerVars, facadeVars, substVars>>

\* ------------------------------------------------------- tensor helpers
Zeros(rows, cols) == [i \in 1..rows |-> [j \in 1..cols |-> 0]]

\* The matrix whose only non-zero entry, v, is the p-th in row-major order.
OneHot(rows, cols, p, v) ==
    [i \in 1..rows |-> [j \in 1..cols |-> IF (i - 1) * cols + j = p THEN v ELSE 0]]

\* The values a tensor of a given shape is drawn from: every operation of the
\* layers is linear in each of x, weight, lora_A and lora_B, so zero and the
\* scaled unit matrices exercise every entry of every product.
Tensors(rows, cols) ==
    {Zeros(rows, cols)} \cup
    {OneHot(rows, cols, p, v) : p \in 1..(rows * cols), v \in 1..MaxVal}

Rows(m) == Len(m)
Cols(m) == IF Len(m) = 0 THEN 0 ELSE Len(m[1])

RECURSIVE SumTo(_, _)
SumTo(f, n) == IF n = 0 THEN 0 ELSE f[n] + SumTo(f, n - 1)

MatT(m) == [j \in 1..Cols(m) |-> [i \in 1..Rows(m) |-> m[i][j]]]

MatMul(a, b) ==
    [i \in 1..Rows(a) |-> [j \in 1..Cols(b) |->
        SumTo([k \in 1..Cols(a) |-> a[i][k] * b[k][j]], Cols(a))]]

MatAdd(a, b) == [i \in 1..Rows(a) |-> [j \in 1..Cols(a) |-> a[i][j] + b[i][j]]]
MatSub(a, b) == [i \in 1..Rows(a) |-> [j \in 1..Cols(a) |-> a[i][j] - b[i][j]]]
MatScale(a, s) == [i \in 1..Rows(a) |-> [j \in 1..Cols(a) |-> a[i][j] * s]]
SameShape(a, b) == Rows(a) = Rows(b) /\ Cols(a) = Cols(b)

\* ..utils.transpose(weight, fan_in_fan_out): weight.T if fan_in_fan_out else weight
transpose(w, fan_in_fan_out) == IF fan_in_fan_out THEN MatT(w) ELSE w

\* F.linear(x, w, bias): x @ w.T + bias, x of shape (N, in), w of shape (out, in);
\* bias is <<>> for None.
F_linear(x, w, bias) ==
    LET y == MatMul(x, MatT(w))
    IN  IF bias = <<>> THEN y
        ELSE [n \in 1..Rows(y) |-> [j \in 1..Cols(y) |-> y[n][j] + bias[j]]]

\* nn.Dropout(p = 1/2) in training mode under the mask drawn for this call
\* (mask[n][j] = 1: kept and scaled by 2); the identity when no mask is drawn.
Dropout(x, mask) ==
    [n \in 1..Rows(x) |-> [j \in 1..Cols(x) |-> x[n][j] * mask[n][j] * 2]]

\* Python's sum() and any() over a list of booleans.
RECURSIVE SumBool(_)
SumBool(s) == IF s = <<>> THEN 0 ELSE (IF s[1] THEN 1 ELSE 0) + SumBool(Tail(s))
AnyTrue(s) == \E i \in 1..Len(s) : s[i]

\* x.reshape(-1): the entries of a matrix in row-major order.
Flatten(m) ==
    [p \in 1..(Rows(m) * Cols(m)) |-> m[((p - 1) \div Cols(m)) + 1][((p - 1) % Cols(m)) + 1]]

\* The result of a tensor operation that may raise.
Ok(v) == [ok |-> TRUE, val |-> v, exc |-> "none"]
Raise(e) == [ok |-> FALSE, val |-> <<>>, exc |-> e]

\* F.conv1d with kernel size 1 on an input of C channels by L positions and a
\* weight of O output channels by C/groups input channels per group.  w_ndim is
\* the number of dimensions of the weight tensor that is passed: conv1d takes a
\* 3-dimensional weight (out, in/groups, kernel) and raises RuntimeError on any
\* other, as it does when the channel counts do not fit the groups.
F_conv1d(input, weight, w_ndim, groups) ==
    LET C == Rows(input)
        O == Rows(weight)
    IN  IF \/ w_ndim # 3
           \/ groups <= 0
           \/ C % groups # 0
           \/ O % groups # 0
           \/ Cols(weight) # C \div groups
        THEN Raise("RuntimeError")
        ELSE LET cg == C \div groups
                 og == O \div groups
             IN  Ok([o \in 1..O |-> [t \in 1..Cols(input) |->
                    SumTo([c \in 1..cg |->
                             weight[o][c] * input[((o - 1) \div og) * cg + c][t]], cg)]])

\* ------------------------------------------------------------ LoraLayer
\* The number of groups nn.Conv1d is given when MergedLinear builds lora_B.
ConstructGroups == 2

\* Linear.__init__ followed by reset_parameters: w is the weight as stored
\* (already transposed when fan_in_fan_out), a the kaiming draw of lora_A.
Linear_init(in_features, out_features, r, scaling, dropout, fan_in_fan_out, merge_weights, w, b, a) ==
    [kind |-> "Linear", constructed |-> TRUE, exc |-> "none",
     in_features |-> in_features, out_features |-> out_features,
     r |-> r, scaling |-> IF r > 0 THEN scaling ELSE 0,
     dropout |-> dropout, fan_in_fan_out |-> fan_in_fan_out,
     merge_weights |-> merge_weights, merged |-> FALSE, training |-> TRUE,
     weight |-> w, bias |-> b,
     has_lora |-> r > 0,
     lora_A |-> IF r > 0 THEN a ELSE <<>>,
     lora_B |-> IF r > 0 THEN Zeros(out_features, r) ELSE <<>>,
     enable_lora |-> <<>>, groups |-> 0, lora_ind |-> <<>>]

\* lora_ind: new_zeros((out_features,)).view(len(enable_lora), -1), the rows of
\* the enabled groups set to True, then .view(-1).
LoraInd(out_features, enable_lora) ==
    LET part == out_features \div Len(enable_lora)
        grid == [g \in 1..Len(enable_lora) |-> [c \in 1..part |-> enable_lora[g]]]
    IN  Flatten(grid)

\* out_features // len(enable_lora) * sum(enable_lora)
OutActive(out_features, enable_lora) ==
    (out_features \div Len(enable_lora)) * SumBool(enable_lora)

\* Whether MergedLinear.__init__ returns: the divisibility guard, and nn.Conv1d's
\* own check that groups divides both channel counts.
MergedLinear_constructs(out_features, r, enable_lora) ==
    /\ out_features % Len(enable_lora) = 0
    /\ (r > 0 /\ AnyTrue(enable_lora)) =>
          /\ (r * SumBool(enable_lora)) % ConstructGroups = 0
          /\ OutActive(out_features, enable_lora) % ConstructGroups = 0

\* MergedLinear.__init__ followed by reset_parameters; a is the kaiming draw of
\* lora_A, of shape (r * sum(enable_lora), in_features).  When the constructor
\* raises ValueError no layer exists: constructed is FALSE.
MergedLinear_init(in_features, out_features, r, scaling, dropout, enable_lora, fan_in_fan_out, merge_weights, w, b, a) ==
    LET ok == MergedLinear_constructs(out_features, r, enable_lora)
        lora == ok /\ r > 0 /\ AnyTrue(enable_lora)
    IN  [kind |-> "MergedLinear", constructed |-> ok,
         exc |-> IF ok THEN "none" ELSE "ValueError",
         in_features |-> in_features, out_features |-> out_features,
         r |-> r, scaling |-> IF lora THEN scaling ELSE 0,
         dropout |-> dropout, fan_in_fan_out |-> fan_in_fan_out,
         merge_weights |-> merge_weights, merged |-> FALSE, training |-> TRUE,
         weight |-> w, bias |-> b,
         has_lora |-> lora,
         lora_A |-> IF lora THEN a ELSE <<>>,
         lora_B |-> IF lora
                    THEN Zeros(OutActive(out_features, enable_lora),
                               (r * SumBool(enable_lora)) \div ConstructGroups)
                    ELSE <<>>,
         enable_lora |-> enable_lora,
         groups |-> IF lora THEN ConstructGroups ELSE 0,
         lora_ind |-> IF lora THEN LoraInd(out_features, enable_lora) ELSE <<>>]

\* self.lora_dropout(x): nn.Dropout is active in training mode only, and
\* lora_dropout is the identity when the layer was built with lora_dropout = 0.
lora_dropout(l, x, mask) == IF l.dropout /\ l.training THEN Dropout(x, mask) ELSE x

\* b added in place to a tensor of w's shape (w += b): b is broadcast to w.
Broadcastable(b, w) ==
    /\ Rows(b) > 0
    /\ Rows(b) \in {Rows(w), 1}
    /\ Cols(b) \in {Cols(w), 1}
BroadcastTo(b, w) ==
    [i \in 1..Rows(w) |-> [j \in 1..Cols(w) |->
        b[IF Rows(b) = 1 THEN 1 ELSE i][IF Cols(b) = 1 THEN 1 ELSE j]]]

\* --------------------------------------------------------------- Linear
\* transpose(self.lora_B.weight @ self.lora_A.weight, self.fan_in_fan_out) * self.scaling
Linear_delta(l) ==
    MatScale(transpose(MatMul(l.lora_B, l.lora_A), l.fan_in_fan_out), l.scaling)

\* Linear.train as it would be with the scaling factor forgotten in the unmerge.
Linear_train_unscaled(l, mode) ==
    LET l1 == [l EXCEPT !.exc = "none", !.training = mode]
    IN  IF ~l.has_lora THEN [l1 EXCEPT !.exc = "AttributeError"]
        ELSE IF l.merge_weights /\ l.merged
        THEN [l1 EXCEPT !.weight = IF l.r > 0
                                   THEN MatSub(@, transpose(MatMul(l.lora_B, l.lora_A),
                                                            l.fan_in_fan_out))
                                   ELSE @,
                        !.merged = FALSE]
        ELSE l1

\* Linear.train(mode).  nn.Linear.train sets the training flag of the layer and
\* of its children; self.lora_A raises AttributeError when r = 0 left it unset.
Linear_train(l, mode) ==
    LET l1 == [l EXCEPT !.exc = "none", !.training = mode]
    IN  IF ~l.has_lora THEN [l1 EXCEPT !.exc = "AttributeError"]
        ELSE IF l.merge_weights /\ l.merged
        THEN [l1 EXCEPT !.weight = IF l.r > 0 THEN MatSub(@, Linear_delta(l)) ELSE @,
                        !.merged = FALSE]
        ELSE l1

\* The first statement of Linear.eval, nn.Linear.eval(self): nn.Module.eval is
\* "return self.train(False)", and self.train is Linear.train.
Linear_eval_base(l) == Linear_train(l, FALSE)

\* The rest of Linear.eval, from self.lora_A.eval() on.
Linear_eval_rest(l) ==
    IF ~l.has_lora THEN [l EXCEPT !.exc = "AttributeError"]
    ELSE IF l.merge_weights /\ ~l.merged
    THEN [l EXCEPT !.weight = IF l.r > 0 THEN MatAdd(@, Linear_delta(l)) ELSE @,
                   !.merged = TRUE]
    ELSE l

\* Linear.forward(x) under the dropout mask drawn for the call.
Linear_forward(l, x, mask) ==
    IF l.r > 0 /\ ~l.merged
    THEN LET result == F_linear(x, transpose(l.weight, l.fan_in_fan_out), l.bias)
             after_A == F_linear(lora_dropout(l, x, mask), l.lora_A, <<>>)
             after_B == F_linear(after_A, l.lora_B, <<>>)
         IN  IF l.r > 0 THEN Ok(MatAdd(result, MatScale(after_B, l.scaling)))
             ELSE Ok(result)
    ELSE Ok(F_linear(x, transpose(l.weight, l.fan_in_fan_out), l.bias))

\* --------------------------------------------------------- MergedLinear
\* The number of true entries of ind among its first j.
RECURSIVE Rank(_, _)
Rank(ind, j) == IF j = 0 THEN 0 ELSE (IF ind[j] THEN 1 ELSE 0) + Rank(ind, j - 1)

\* zero_pad as it would be if the compact values went to the leading columns
\* instead of the columns lora_ind selects.
zero_pad_leading(l, x) ==
    LET oa == OutActive(l.out_features, l.enable_lora)
    IN  IF Cols(x) # oa THEN Raise("RuntimeError")
        ELSE Ok([n \in 1..Rows(x) |-> [j \in 1..l.out_features |->
                   IF j <= oa THEN x[n][j] ELSE 0]])

\* MergedLinear.zero_pad(x): a zero tensor of shape (*x.shape[:-1], out_features)
\* whose columns lora_ind are assigned x.reshape(-1, out_active); the reshape and
\* the assignment raise RuntimeError when the shapes do not fit.
zero_pad(l, x) ==
    LET oa == OutActive(l.out_features, l.enable_lora)
        numel == Rows(x) * Cols(x)
    IN  IF numel % oa # 0 THEN Raise("RuntimeError")
        ELSE LET vr == numel \div oa
                 flat == Flatten(x)
                 val == [i \in 1..vr |-> [j \in 1..oa |-> flat[(i - 1) * oa + j]]]
             IN  IF vr # Rows(x) /\ vr # 1 THEN Raise("RuntimeError")
                 ELSE Ok([n \in 1..Rows(x) |-> [j \in 1..l.out_features |->
                            IF l.lora_ind[j]
                            THEN val[IF vr = 1 THEN 1 ELSE n][Rank(l.lora_ind, j)]
                            ELSE 0]])

\* The number of dimensions of nn.Conv1d's weight: (out, in / groups, kernel).
Conv1dWeightNdim == 3

\* groups=sum(self.enable_lora), as passed to F.conv1d by train and eval.
MergedLinear_merge_groups(l) == SumBool(l.enable_lora)

\* The update that train subtracts and eval adds: F.conv1d of
\* lora_A.weight.data.unsqueeze(0) with lora_B.weight.data.unsqueeze(-1) in
\* sum(enable_lora) groups, scaled, transposed per fan_in_fan_out and zero_pad-ded.
MergedLinear_delta(l) ==
    LET delta_w == F_conv1d(l.lora_A, l.lora_B, Conv1dWeightNdim + 1, MergedLinear_merge_groups(l))
    IN  IF ~delta_w.ok THEN delta_w
        ELSE zero_pad(l, transpose(MatScale(delta_w.val, l.scaling), l.fan_in_fan_out))

\* self.weight.data += sign * delta, raising RuntimeError when building the
\* delta raised or when it cannot be broadcast to the weight's shape.
MergedLinear_update(l, sign) ==
    LET d == MergedLinear_delta(l)
    IN  IF ~d.ok THEN [l EXCEPT !.exc = d.exc]
        ELSE IF ~Broadcastable(d.val, l.weight) THEN [l EXCEPT !.exc = "RuntimeError"]
        ELSE [l EXCEPT !.weight = MatAdd(@, MatScale(BroadcastTo(d.val, l.weight), sign))]

\* MergedLinear.train(mode)
MergedLinear_train(l, mode) ==
    LET l1 == [l EXCEPT !.exc = "none", !.training = mode]
    IN  IF ~l.has_lora THEN [l1 EXCEPT !.exc = "AttributeError"]
        ELSE IF l.merge_weights /\ l.merged
        THEN LET l2 == IF l.r > 0 /\ AnyTrue(l.enable_lora)
                       THEN MergedLinear_update(l1, -1) ELSE l1
             IN  IF l2.exc # "none" THEN l2 ELSE [l2 EXCEPT !.merged = FALSE]
        ELSE l1

\* nn.Linear.eval(self) in MergedLinear.eval: self.train(False), MergedLinear.train.
MergedLinear_eval_base(l) == MergedLinear_train(l, FALSE)

\* The rest of MergedLinear.eval, from self.lora_A.eval() on.
MergedLinear_eval_rest(l) ==
    IF ~l.has_lora THEN [l EXCEPT !.exc = "AttributeError"]
    ELSE IF l.merge_weights /\ ~l.merged
    THEN LET l2 == IF l.r > 0 /\ AnyTrue(l.enable_lora)
                   THEN MergedLinear_update(l, 1) ELSE l
         IN  IF l2.exc # "none" THEN l2 ELSE [l2 EXCEPT !.merged = TRUE]
    ELSE l

\* MergedLinear.forward(x) under the dropout mask drawn for the call.  lora_B is
\* the nn.Conv1d built with ConstructGroups groups, applied to after_A with its
\* last two axes swapped.
MergedLinear_forward(l, x, mask) ==
    LET result == F_linear(x, transpose(l.weight, l.fan_in_fan_out), l.bias)
    IN  IF l.merged THEN Ok(result)
        ELSE IF l.r > 0
        THEN IF ~l.has_lora THEN Raise("AttributeError")
             ELSE LET after_A == F_linear(lora_dropout(l, x, mask), l.lora_A, <<>>)
                      conv == F_conv1d(MatT(after_A), l.lora_B, Conv1dWeightNdim, l.groups)
                  IN  IF ~conv.ok THEN conv
                      ELSE LET padded == zero_pad(l, MatT(conv.val))
                           IN  IF ~padded.ok THEN padded
                               ELSE Ok(MatAdd(result, MatScale(padded.val, l.scaling)))
        ELSE Ok(result)

\* ------------------------------------------- dispatch on the layer's class
Layer_train(l, mode) ==
    IF l.kind = "Linear" THEN Linear_train(l, mode) ELSE MergedLinear_train(l, mode)
Layer_eval_base(l) ==
    IF l.kind = "Linear" THEN Linear_eval_base(l) ELSE MergedLinear_eval_base(l)
Layer_eval_rest(l) ==
    IF l.kind = "Linear" THEN Linear_eval_rest(l) ELSE MergedLinear_eval_rest(l)
Layer_forward(l, x, mask) ==
    IF l.kind = "Linear" THEN Linear_forward(l, x, mask) ELSE MergedLinear_forward(l, x, mask)

\* layer.eval() as one call: the base-class step, then the rest unless it raised.
Layer_eval(l) ==
    LET l1 == Layer_eval_base(l)
    IN  IF l1.exc # "none" THEN l1 ELSE Layer_eval_rest(l1)

\* ------------------------------------------------ one layer: state space
\* layer   the adapter layer object (its attributes, and exc: the exception the
\*         last call on it raised, "none" when it returned)
\* pc      "idle", or "eval_rest" inside eval() after its base-class step
\* pre     weight and merged at the start of the last eval() call, kept while
\*         that eval() and the call right after it are the latest calls
\* last    the last call made on the layer ("init": none since construction)
\* eff0    the effective weight when lora_A and lora_B were last set

Ramp(rows, cols, v) == [i \in 1..rows |-> [j \in 1..cols |-> v * ((i - 1) * cols + j)]]

\* Pretrained weights, biases (<<>>: bias=False) and enable_lora lists.
BaseWeights(rows, cols) == {Ramp(rows, cols, v) : v \in 1..MaxVal}
Biases(out_features) == {<<>>, [j \in 1..out_features |-> j]}
EnableLoras == UNION {[1..n -> BOOLEAN] : n \in 1..MaxMask}

\* The weight is stored (out, in), or (in, out) when fan_in_fan_out.
StoredWeights(in_features, out_features, fan_in_fan_out) ==
    IF fan_in_fan_out THEN BaseWeights(in_features, out_features)
    ELSE BaseWeights(out_features, in_features)

\* The values kaiming_uniform_ leaves in a (rows, cols) lora_A: non-zero, and
\* here all distinct.
Draws(rows, cols) == IF rows = 0 THEN {<<>>} ELSE {Ramp(rows, cols, v) : v \in 1..MaxVal}

\* NewLinear(l), NewMergedLinear(l): l is a layer some constructor call just built.
NewLinear(l) ==
    \E i \in 1..MaxIn, o \in 1..MaxOut, r \in 0..MaxR, s \in 1..MaxScaling,
       d \in BOOLEAN, f \in BOOLEAN, m \in BOOLEAN :
       \E w \in StoredWeights(i, o, f), b \in Biases(o), a \in Draws(r, i) :
          l = Linear_init(i, o, r, s, d, f, m, w, b, a)

NewMergedLinear(l) ==
    \E i \in 1..MaxIn, o \in 1..MaxOut, r \in 0..MaxR, s \in 1..MaxScaling,
       d \in BOOLEAN, f \in BOOLEAN, m \in BOOLEAN, e \in EnableLoras :
       \E w \in StoredWeights(i, o, f), b \in Biases(o), a \in Draws(r * SumBool(e), i) :
          l = MergedLinear_init(i, o, r, s, d, e, f, m, w, b, a)

\* The grouped layer of the spec's example: enable_lora [true, false, true] over
\* out_features = 9.
ExampleNew ==
    MergedLinear_init(1, 9, 1, 1, FALSE, <<TRUE, FALSE, TRUE>>, FALSE, TRUE,
                      Ramp(9, 1, 1), <<>>, Ramp(2, 1, 1))

NoSnap == [weight |-> <<>>, merged |-> FALSE, taken |-> FALSE]

\* Inputs of forward: one row of in_features values; the masks nn.Dropout may
\* draw for it (all ones stands for "no mask drawn" when dropout is inactive).
Inputs(l) == Tensors(1, l.in_features)
Ones(l) == [n \in 1..1 |-> [j \in 1..l.in_features |-> 1]]
DropoutMasks(l) ==
    IF l.dropout /\ l.training
    THEN {[n \in 1..1 |-> m] : m \in [1..l.in_features -> {0, 1}]}
    ELSE {Ones(l)}

\* The weight a forward pass effectively applies: the stored weight when merged,
\* else the stored weight plus scaling * (B @ A) in the stored layout.
EffectiveWeight(l) ==
    IF l.kind = "Linear" /\ l.has_lora /\ ~l.merged
    THEN MatAdd(l.weight,
                MatScale(IF l.fan_in_fan_out THEN MatMul(MatT(l.lora_A), MatT(l.lora_B))
                         ELSE MatMul(l.lora_B, l.lora_A), l.scaling))
    ELSE l.weight

LayerInit ==
    /\ \/ NewLinear(layer)
       \/ NewMergedLinear(layer)
       \/ layer = ExampleNew
    /\ pc = "idle"
    /\ pre = NoSnap
    /\ last = "init"
    /\ eff0 = EffectiveWeight(layer)

\* layer.train(mode)
TrainCall(mode) ==
    /\ pc = "idle" /\ layer.constructed
    /\ layer' = Layer_train(layer, mode)
    /\ pre' = IF last = "eval" THEN pre ELSE NoSnap
    /\ last' = "train"
    /\ UNCHANGED <<pc, eff0, facadeVars, substVars>>

\* layer.eval(), up to the return of its first statement nn.Linear.eval(self)
EvalCall ==
    /\ pc = "idle" /\ layer.constructed
    /\ layer' = Layer_eval_base(layer)
    /\ pre' = [weight |-> layer.weight, merged |-> layer.merged, taken |-> TRUE]
    /\ IF layer'.exc # "none"
       THEN pc' = "idle" /\ last' = "eval"
       ELSE pc' = "eval_rest" /\ UNCHANGED last
    /\ UNCHANGED <<eff0, facadeVars, substVars>>

\* layer.eval(), the rest of its body
EvalRest ==
    /\ pc = "eval_rest"
    /\ layer' = Layer_eval_rest(layer)
    /\ pc' = "idle"
    /\ last' = "eval"
    /\ UNCHANGED <<pre, eff0, facadeVars, substVars>>

\* lora_A and lora_B are given new values: the load_state_dict of
\* LoraModel.from_pretrained, which runs on the freshly built, unmerged model
\* (or an optimizer step, taken in the decomposed state).
LoadFactors(a, b) ==
    /\ pc = "idle" /\ layer.constructed /\ layer.has_lora /\ ~layer.merged
    /\ layer' = [layer EXCEPT !.lora_A = a, !.lora_B = b, !.exc = "none"]
    /\ pre' = NoSnap
    /\ last' = "load"
    /\ eff0' = EffectiveWeight(layer')
    /\ UNCHANGED <<pc, facadeVars, substVars>>

LayerNext ==
    \/ \E mode \in BOOLEAN : TrainCall(mode)
    \/ EvalCall
    \/ EvalRest
    \/ \E a \in Draws(Rows(layer.lora_A), Cols(layer.lora_A)) :
       \E b \in Tensors(Rows(layer.lora_B), Cols(layer.lora_B)) : LoadFactors(a, b)

\* ------------------------------------------------- the LoraModel facade
\* net       the adapter layers of the wrapped model, in children order
\* training  the LoraModel's own training flag (TRAIN / EVAL)
\* flast     the last call: "init", "eval", "train" on the LoraModel, "layer_eval"
\*           (eval() called on one layer), "load"
\* fpre      net at the start of the last call

\* The substitution pass builds every layer from the one config; here Linear
\* layers (enable_lora is None) of one input and one output feature.
NewNets ==
    UNION {[1..2 -> {Linear_init(1, 1, r, s, FALSE, FALSE, m, w, <<>>, a) :
                        w \in StoredWeights(1, 1, FALSE), a \in Draws(r, 1)}] :
        r \in 0..MaxR, s \in 1..MaxScaling, m \in BOOLEAN}

FacadeInit ==
    /\ net \in NewNets
    /\ training = TRUE
    /\ flast = "init"
    /\ fpre = net

\* nn.Module.train(mode) on the module tree: module.train(mode) on each child in
\* turn, which for an adapter layer is its own train; an exception raised by a
\* layer propagates, leaving the layers after it untouched.
RECURSIVE Module_train(_, _, _)
Module_train(layers, mode, i) ==
    IF i > Len(layers) THEN layers
    ELSE LET l == Layer_train(layers[i], mode)
             ls == [layers EXCEPT ![i] = l]
         IN  IF l.exc # "none" THEN ls ELSE Module_train(ls, mode, i + 1)

\* LoraModel.train(mode): inherited from nn.Module.
ModelTrain(mode) ==
    /\ net' = Module_train(net, mode, 1)
    /\ training' = mode
    /\ flast' = "train"
    /\ fpre' = net
    /\ UNCHANGED <<layerVars, substVars>>

\* LoraModel.eval(): inherited from nn.Module, whose eval is "return
\* self.train(False)".
ModelEval ==
    /\ net' = Module_train(net, FALSE, 1)
    /\ training' = FALSE
    /\ flast' = "eval"
    /\ fpre' = net
    /\ UNCHANGED <<layerVars, substVars>>

\* eval() called on one adapter layer of the wrapped model.
LayerEval(i) ==
    /\ net' = [net EXCEPT ![i] = Layer_eval(net[i])]
    /\ flast' = "layer_eval"
    /\ fpre' = net
    /\ UNCHANGED <<training, layerVars, substVars>>

\* load_state_dict gives layer i's lora_A and lora_B new values.
LayerLoad(i, a, b) ==
    /\ net[i].has_lora /\ ~net[i].merged
    /\ net' = [net EXCEPT ![i] = [@ EXCEPT !.lora_A = a, !.lora_B = b, !.exc = "none"]]
    /\ flast' = "load"
    /\ fpre' = net
    /\ UNCHANGED <<training, layerVars, substVars>>

FacadeNext ==
    \/ \E mode \in BOOLEAN : ModelTrain(mode)
    \/ ModelEval
    \/ \E i \in 1..Len(net) : LayerEval(i)
    \/ \E i \in 1..Len(net) :
       \E a \in Draws(Rows(net[i].lora_A), Cols(net[i].lora_A)) :
       \E b \in Tensors(Rows(net[i].lora_B), Cols(net[i].lora_B)) : LayerLoad(i, a, b)

\* ------------------------------------- LoraModel._find_and_replace
\* Module names and target_modules entries are strings, here sequences of
\* characters, so that str.endswith is computed.
Key_eq == <<"e", ".", "q">>
Key_ek == <<"e", ".", "k">>
Key_ev == <<"e", ".", "v">>
Key_dout == <<"d", ".", "o", "u", "t">>
Keys == <<Key_eq, Key_ek, Key_ev, Key_dout>>

\* key.endswith(target_key)
EndsWith(key, target_key) ==
    /\ Len(target_key) <= Len(key)
    /\ SubSeq(key, Len(key) - Len(target_key) + 1, Len(key)) = target_key

\* any(key.endswith(target_key) for target_key in self.peft_config.target_modules)
Targeted(key, target_modules) == \E t \in target_modules : EndsWith(key, t)

\* The modules a host graph may hold under a name: nn.Linear with or without a
\* bias, transformers' Conv1D (weight of shape (in, out), always a bias),
\* nn.LayerNorm (weight and bias, no in_features) and nn.Dropout (neither).
ModuleKinds ==
    {[type |-> "Linear", has_bias_attr |-> TRUE, bias |-> TRUE],
     [type |-> "Linear", has_bias_attr |-> TRUE, bias |-> FALSE],
     [type |-> "Conv1D", has_bias_attr |-> TRUE, bias |-> TRUE],
     [type |-> "LayerNorm", has_bias_attr |-> TRUE, bias |-> TRUE],
     [type |-> "Dropout", has_bias_attr |-> FALSE, bias |-> FALSE]}

\* Host graphs: the named modules of self.model in named_modules() order, each
\* with its own weight and bias tensors (named by the module's position); the
\* linear ones have one input and two output features.
Graphs == [1..Len(Keys) -> ModuleKinds]

\* enable_lora: None, or a list of booleans.
None == [set |-> FALSE, val |-> <<>>]
Some(v) == [set |-> TRUE, val |-> v]

Configs ==
    [r : 1..MaxR, lora_alpha : {MaxScaling}, lora_dropout : {FALSE},
     merge_weights : {TRUE}, fan_in_fan_out : BOOLEAN,
     target_modules : {{<<"q">>, <<"v">>}, {<<"k">>}, {<<"q">>, <<"v">>, <<"o", "u", "t">>}},
     enable_lora : {None, Some(<<TRUE>>), Some(<<TRUE, TRUE>>)}]

SubstInit ==
    /\ graph \in Graphs
    /\ config \in Configs
    /\ kwargs = [r |-> config.r, lora_alpha |-> config.lora_alpha,
                 lora_dropout |-> config.lora_dropout,
                 fan_in_fan_out |-> config.fan_in_fan_out,
                 merge_weights |-> config.merge_weights, enable_lora |-> None]
    /\ new_module = 0
    /\ adapters = <<>>
    /\ slots = [p \in 1..Len(Keys) |-> 0]
    /\ pos = 1
    /\ raised = "none"

SubstIdle ==
    /\ graph = <<>> /\ config = <<>> /\ kwargs = <<>> /\ new_module = 0
    /\ adapters = <<>> /\ slots = <<>> /\ pos = 0 /\ raised = "none"

\* The adapter object a constructor call returns: its class, its arguments, and
\* the tensors it holds (0: the ones it allocated itself, -1: none).
NewAdapter(cls, in_features, out_features, bias, kw) ==
    [cls |-> cls, in_features |-> in_features, out_features |-> out_features,
     bias_arg |-> bias, r |-> kw.r, lora_alpha |-> kw.lora_alpha,
     lora_dropout |-> kw.lora_dropout, fan_in_fan_out |-> kw.fan_in_fan_out,
     merge_weights |-> kw.merge_weights, enable_lora |-> kw.enable_lora,
     weight |-> 0, bias |-> IF bias THEN 0 ELSE -1]

\* _replace_module(parent, target_name, new_module, target): the parent's
\* attribute now names new_module, which takes the old module's weight and, when
\* the old module has one, its bias.
ReplaceModule(objects, p, a) ==
    /\ slots' = [slots EXCEPT ![p] = a]
    /\ adapters' = [objects EXCEPT ![a] =
                      [@ EXCEPT !.weight = p,
                                !.bias = IF graph[p].bias THEN p ELSE @]]

Fail(e) ==
    /\ raised' = e
    /\ UNCHANGED <<adapters, slots, new_module>>

\* One iteration of "for key in key_list" on a key no target matches.
VisitOther ==
    /\ pos \in 1..Len(Keys) /\ raised = "none"
    /\ ~Targeted(Keys[pos], config.target_modules)
    /\ pos' = pos + 1
    /\ UNCHANGED <<graph, config, kwargs, new_module, adapters, slots, raised>>
    /\ UNCHANGED <<layerVars, facadeVars>>

\* One iteration of "for key in key_list" on a key some target matches.
VisitTarget ==
    /\ pos \in 1..Len(Keys) /\ raised = "none"
    /\ Targeted(Keys[pos], config.target_modules)
    /\ pos' = pos + 1
    /\ LET target == graph[pos]
           n == Len(adapters) + 1
       IN  IF ~target.has_bias_attr
           THEN Fail("AttributeError") /\ UNCHANGED kwargs
           ELSE IF target.type = "Linear" /\ ~config.enable_lora.set
           THEN /\ ReplaceModule(Append(adapters,
                                      NewAdapter("Linear", 1, 2, target.bias, kwargs)),
                                  pos, n)
                /\ new_module' = n
                /\ UNCHANGED <<kwargs, raised>>
           ELSE IF config.enable_lora.set
           THEN LET kw1 == [kwargs EXCEPT !.enable_lora = config.enable_lora]
                    kw2 == IF target.type # "Conv1D" /\ kw1.fan_in_fan_out
                           THEN [kw1 EXCEPT !.fan_in_fan_out = FALSE] ELSE kw1
                IN  IF target.type \notin {"Conv1D", "Linear"}
                    THEN Fail("AttributeError") /\ kwargs' = kw1
                    ELSE IF ~MergedLinear_constructs(2, kw2.r, kw2.enable_lora.val)
                    THEN Fail("ValueError") /\ kwargs' = kw2
                    ELSE /\ ReplaceModule(Append(adapters,
                                      NewAdapter("MergedLinear", 1, 2, target.bias, kw2)),
                                           pos, n)
                         /\ new_module' = n
                         /\ kwargs' = kw2
                         /\ UNCHANGED raised
           ELSE IF new_module = 0
           THEN Fail("UnboundLocalError") /\ UNCHANGED kwargs
           ELSE /\ ReplaceModule(adapters, pos, new_module)
                /\ UNCHANGED <<kwargs, new_module, raised>>
    /\ UNCHANGED <<graph, config>>
    /\ UNCHANGED <<layerVars, facadeVars>>

SubstNext == VisitOther \/ VisitTarget

\* The pass is over: the loop ended or an exception left it.
SubstDone == pos > Len(Keys) \/ raised # "none"

\* ------------------------------------------------------ specifications
\* Each specification runs one part of the program; the variables of the other
\* parts keep the values given here.
LayerIdle == layer = <<>> /\ pc = "idle" /\ pre = NoSnap /\ last = "init" /\ eff0 = <<>>
FacadeIdle == net = <<>> /\ training = TRUE /\ flast = "init" /\ fpre = <<>>

\* One adapter layer and the calls made on it.
Init == LayerInit /\ FacadeIdle /\ SubstIdle
Spec == Init /\ [][LayerNext]_vars

\* A LoraModel over two adapter layers.
InitFacade == FacadeInit /\ LayerIdle /\ SubstIdle
SpecFacade == InitFacade /\ [][FacadeNext]_vars

\* The substitution pass over a host graph.
InitSubst == SubstInit /\ LayerIdle /\ FacadeIdle
SpecSubst == InitSubst /\ [][SubstNext]_vars

\* ================================================================ claims
IsSimple(l) == l.kind = "Linear"
IsGrouped(l) == l.kind = "MergedLinear" /\ l.constructed

\* Every forward input with every dropout mask that may be drawn for it.
AllCalls(l) == Inputs(l) \X DropoutMasks(l)

\* The plain base layer's output: x @ W.T + bias, W read from the stored weight.
BaseLinear(l, x) ==
    LET W == IF l.fan_in_fan_out THEN MatT(l.weight) ELSE l.weight
    IN  [n \in 1..Rows(x) |-> [j \in 1..l.out_features |->
           SumTo([k \in 1..l.in_features |-> x[n][k] * W[j][k]], l.in_features)
           + (IF l.bias = <<>> THEN 0 ELSE l.bias[j])]]

\* The output the decomposed form gives for the effective weight eff0 and the
\* current factors: x @ (E - s B A).T + bias + s * B A dropout(x), E being eff0
\* read as (out, in).
C1_Reference(l, x, mask) ==
    LET E == IF l.fan_in_fan_out THEN MatT(eff0) ELSE eff0
        BA == MatMul(l.lora_B, l.lora_A)
        xd == lora_dropout(l, x, mask)
    IN  [n \in 1..Rows(x) |-> [j \in 1..l.out_features |->
           SumTo([k \in 1..l.in_features |->
                    x[n][k] * (E[j][k] - l.scaling * BA[j][k])
                    + l.scaling * xd[n][k] * BA[j][k]], l.in_features)
           + (IF l.bias = <<>> THEN 0 ELSE l.bias[j])]]

\* C1: for a Linear layer with r > 0 and merge_weights, train(mode) and eval()
\* calls keep the effective weight (the weight when merged, the weight plus
\* scaling * B A in the stored layout when not) equal to what it was when lora_A
\* and lora_B were last set; an eval() called on the unmerged layer and followed
\* at once by train() leaves the weight exactly as it was before the eval(); and
\* forward returns, for every input and dropout mask, what the decomposed form
\* returns for that effective weight.
C1_EffectiveWeightPreserved ==
    (IsSimple(layer) /\ layer.r > 0 /\ layer.merge_weights) =>
        /\ layer.exc = "none"
        /\ EffectiveWeight(layer) = eff0
        /\ (pc = "idle" /\ last = "train" /\ pre.taken /\ ~pre.merged)
              => (layer.weight = pre.weight /\ ~layer.merged)
        /\ \A c \in AllCalls(layer) :
              LET out == Layer_forward(layer, c[1], c[2])
              IN  out.ok /\ out.val = C1_Reference(layer, c[1], c[2])

\* A Linear layer with distinct in and out sizes, a transposed weight and a
\* non-zero B A, right after eval() then train() brought the weight back.
C1_Witness ==
    /\ IsSimple(layer) /\ layer.r > 0 /\ layer.merge_weights
    /\ layer.fan_in_fan_out /\ layer.in_features # layer.out_features
    /\ pc = "idle" /\ last = "train" /\ pre.taken /\ ~pre.merged
    /\ Linear_delta(layer) # Zeros(Rows(layer.weight), Cols(layer.weight))
    /\ layer.weight = pre.weight

\* C3: eval() on a Linear layer (r > 0, merge_weights) that is already merged
\* does not write the weight and leaves merged true, at every point of the call
\* (after its base-class step, and at its return).
C3_SecondEvalIsNoop ==
    (IsSimple(layer) /\ layer.r > 0 /\ layer.merge_weights /\ pre.taken /\ pre.merged
        /\ (pc = "eval_rest" \/ (pc = "idle" /\ last = "eval")))
    => (layer.merged /\ layer.weight = pre.weight)

\* C5: a Linear layer built with r = 0 never raises from train(mode) or eval(),
\* keeps its weight, and forwards as the plain base layer.
C5_RankZeroPassthrough ==
    (IsSimple(layer) /\ layer.r = 0) =>
        /\ layer.exc = "none"
        /\ layer.weight = eff0
        /\ \A c \in AllCalls(layer) :
              LET out == Layer_forward(layer, c[1], c[2])
              IN  out.ok /\ out.val = BaseLinear(layer, c[1])

\* Whether output position j lies in a partition whose enable_lora entry is true,
\* and the place among the compact values that belongs to it.
C8_Active(l, j) ==
    l.enable_lora[((j - 1) \div (l.out_features \div Len(l.enable_lora))) + 1]
C8_CompactIndex(l, j) ==
    LET part == l.out_features \div Len(l.enable_lora)
        g == ((j - 1) \div part) + 1
    IN  part * Cardinality({h \in 1..(g - 1) : l.enable_lora[h]}) + ((j - 1) % part) + 1

C8_Scatters(l) ==
    /\ Len(l.lora_ind) = l.out_features
    /\ \A j \in 1..l.out_features : l.lora_ind[j] = C8_Active(l, j)
    /\ \A rows \in 1..2 :
       \A x \in Tensors(rows, OutActive(l.out_features, l.enable_lora)) :
          LET z == zero_pad(l, x)
          IN  /\ z.ok
              /\ Rows(z.val) = rows
              /\ \A n \in 1..rows : \A j \in 1..l.out_features :
                    z.val[n][j] = IF C8_Active(l, j) THEN x[n][C8_CompactIndex(l, j)] ELSE 0
    /\ ~l.merged =>
          \A c \in AllCalls(l) :
             LET out == Layer_forward(l, c[1], c[2])
             IN  /\ out.ok
                 /\ \A j \in 1..l.out_features :
                       ~C8_Active(l, j) => out.val[1][j] = BaseLinear(l, c[1])[1][j]

C9_ZeroInitIdentity ==
    (layer.constructed /\ layer.r > 0 /\ pc = "idle" /\ last = "init") =>
        \A c \in AllCalls(layer) :
           LET out == Layer_forward(layer, c[1], c[2])
           IN  out.ok /\ out.val = BaseLinear(layer, c[1])

\* C10: in a MergedLinear layer with r > 0 and some enabled partition, lora_B is
\* built and applied with sum(enable_lora) groups, the number of groups train and
\* eval use to rebuild the delta.
C10_GroupsAgree ==
    (IsGrouped(layer) /\ layer.r > 0 /\ AnyTrue(layer.enable_lora)) =>
        /\ layer.groups = SumBool(layer.enable_lora)
        /\ layer.groups = MergedLinear_merge_groups(layer)

\* The layer as it was when the last eval() was called on it.
C4_Decomposed(l) == [l EXCEPT !.weight = pre.weight, !.merged = pre.merged]

\* C4: for a MergedLinear layer with r > 0, merge_weights and some enabled
\* partition, eval() called on the unmerged layer returns with merged set and a
\* weight of unchanged shape whose forward equals the decomposed forward (no
\* dropout in eval mode) for every input, and a train() right after it restores
\* the weight.
C4_GroupedMergeMatchesForward ==
    (IsGrouped(layer) /\ layer.r > 0 /\ layer.merge_weights
        /\ AnyTrue(layer.enable_lora) /\ pc = "idle" /\ pre.taken /\ ~pre.merged) =>
        /\ last = "eval" =>
              /\ layer.exc = "none" /\ layer.merged
              /\ SameShape(layer.weight, pre.weight)
              /\ \A c \in AllCalls(layer) :
                    LET out == Layer_forward(layer, c[1], c[2])
                        dec == Layer_forward(C4_Decomposed(layer), c[1], c[2])
                    IN  out.ok /\ dec.ok /\ out.val = dec.val
        /\ last = "train" =>
              layer.exc = "none" /\ ~layer.merged /\ layer.weight = pre.weight

\* C2: with merge_weights and r > 0 the LoraModel starts in TRAIN with every
\* layer unmerged; after eval() on the LoraModel every adapter layer is merged,
\* its weight being the effective weight it had before the call; after train()
\* on the LoraModel every adapter layer is unmerged, its weight being the former
\* weight without the delta if it was merged.
C2_FacadeTransitions ==
    \A i \in 1..Len(net) :
       (net[i].r > 0 /\ net[i].merge_weights) =>
          /\ flast = "init" => (training /\ ~net[i].merged)
          /\ flast = "eval" =>
                (~training /\ net[i].merged /\ net[i].weight = EffectiveWeight(fpre[i]))
          /\ flast = "train" =>
                /\ ~net[i].merged
                /\ net[i].weight = IF fpre[i].merged
                                   THEN MatSub(fpre[i].weight, Linear_delta(fpre[i]))
                                   ELSE fpre[i].weight

\* Whether the module first found at position p is a dense linear-like layer.
LinearLike(p) == graph[p].type \in {"Linear", "Conv1D"}

\* C6: when the pass is over it has not raised, and the position of a module
\* holds an adapter layer exactly if the module's name ends with one of
\* target_modules and the module is linear-like (every other position still
\* holds its module).
C6_ReplacedIffTargetedLinear ==
    SubstDone =>
        /\ raised = "none"
        /\ \A p \in 1..Len(Keys) :
              (slots[p] # 0) <=> (Targeted(Keys[p], config.target_modules) /\ LinearLike(p))

\* C7: after a pass that did not raise, every adapter layer that was built sits
\* at exactly one position, every replaced position holds an adapter layer with
\* the weight (and the bias, if any) of the module first found there, and no two
\* positions hold the same adapter layer (hence the same factors) or weight.
C7_ExclusiveOwnership ==
    (SubstDone /\ raised = "none") =>
        /\ \A a \in 1..Len(adapters) : Cardinality({p \in 1..Len(Keys) : slots[p] = a}) = 1
        /\ \A p \in 1..Len(Keys) :
              slots[p] # 0 =>
                 /\ adapters[slots[p]].weight = p
                 /\ graph[p].bias => adapters[slots[p]].bias = p
        /\ \A p, q \in 1..Len(Keys) :
              (p # q /\ slots[p] # 0 /\ slots[q] # 0) =>
                 /\ slots[p] # slots[q]
                 /\ adapters[slots[p]].weight # adapters[slots[q]].weight

\* The position whose visit built adapter a: the first position that holds it.
C11_BuiltFor(a, p) == slots[p] = a /\ \A q \in 1..(p - 1) : slots[q] # a

\* The fan_in_fan_out the config and the target's own type give: the config's
\* value for a Linear adapter and for a Conv1D target, False for a MergedLinear
\* adapter of a target that is not a Conv1D.
C11_FanInFanOut(cls, type) ==
    IF cls = "MergedLinear" /\ type # "Conv1D" THEN FALSE ELSE config.fan_in_fan_out

\* C11: at every point of the pass, each adapter layer built so far was given
\* the config's r, lora_alpha, lora_dropout and merge_weights, and the
\* fan_in_fan_out that the config and the type of its own target give (for a
\* Conv1D target: the config's fan_in_fan_out), whatever was visited before it.
C11_ArgumentsFromConfigOnly ==
    \A a \in 1..Len(adapters) : \A p \in 1..Len(slots) :
       C11_BuiltFor(a, p) =>
          /\ adapters[a].r = config.r
          /\ adapters[a].lora_alpha = config.lora_alpha
          /\ adapters[a].lora_dropout = config.lora_dropout
          /\ adapters[a].merge_weights = config.merge_weights
          /\ adapters[a].fan_in_fan_out = C11_FanInFanOut(adapters[a].cls, graph[p].type)

====
